---- MODULE Spec2Model ----
(***************************************************************************)
(* Model of fastTSNE/affinity.py: the affinity models PerplexityBasedNN,   *)
(* FixedSigmaNN and Multiscale, the helpers build_knn_index and            *)
(* joint_probabilities_nn, and the perplexity checks.                      *)
(*                                                                         *)
(* Numbers.  Perplexities are exact fractions num/PerpDen, held as the     *)
(* integer numerator; (n_samples - 1) / 3 is then representable.  Matrix   *)
(* entries are exact fractions <<num, den>> in lowest terms, den > 0, so   *)
(* "sums to 1" and "equals its transpose" are exact statements.  Data are  *)
(* points on the integer line.  n_jobs and random_state do not influence   *)
(* any value computed here and are left out.                               *)
(***************************************************************************)
EXTENDS Integers, Sequences, FiniteSets, TLC

\* ---------------------------------------------------------------- bounds
MaxSamples == 4      \* reference sets have 1..MaxSamples points
MaxNew == 2          \* to_new is given a batch of MaxNew new points
PerpScale == 2       \* perplexities are multiples of 1/(3*PerpScale)
MaxPerp == 6         \* the largest perplexity input is MaxPerp/(3*PerpScale)
MaxSigma == 1        \* sigma is drawn from 1..MaxSigma
MaxExp == 3          \* kernel weights saturate at 2^-MaxExp
MaxList == 2         \* longest list handed to check_perplexities

PerpDen == 3 * PerpScale

\* ------------------------------------------------------- exact arithmetic
Abs(x) == IF x < 0 THEN -x ELSE x
Min(a, b) == IF a <= b THEN a ELSE b

RECURSIVE GCD(_, _)
GCD(a, b) == IF b = 0 THEN a ELSE GCD(b, a % b)

LCM(a, b) == (a \div GCD(a, b)) * b

RECURSIVE Pow2(_)
Pow2(e) == IF e = 0 THEN 1 ELSE 2 * Pow2(e - 1)

Rat(a, b) == LET g == GCD(Abs(a), b) IN <<a \div g, b \div g>>
Zero == <<0, 1>>
One == <<1, 1>>
RAdd(x, y) == LET l == LCM(x[2], y[2])
              IN Rat(x[1] * (l \div x[2]) + y[1] * (l \div y[2]), l)
RDiv(x, y) == LET g == GCD(Abs(x[1]), y[1])
                  h == GCD(x[2], y[2])
              IN Rat((x[1] \div g) * (y[2] \div h), (x[2] \div h) * (y[1] \div g))

\* int(x) of Python for x = num/den, den > 0: truncation toward zero
IntTrunc(num, den) == IF num >= 0 THEN num \div den ELSE -((-num) \div den)

\* round(x) of Python 3 for x = num/den >= 0: ties go to the even integer
RoundHalfEven(num, den) ==
    LET q == num \div den
        r == num % den
    IN IF 2 * r < den THEN q
       ELSE IF 2 * r > den THEN q + 1
       ELSE IF q % 2 = 0 THEN q ELSE q + 1

\* ---------------------------------------------------------------- matrices
\* A matrix is a sequence of rows, each row a sequence of entries.  Seq1 turns
\* a function on 1..n into the tuple of its values, computed once.
Seq1(f) == f \o <<>>

NRows(M) == Len(M)
NCols(M) == IF Len(M) = 0 THEN 0 ELSE Len(M[1])

RECURSIVE SeqSum(_)
SeqSum(s) == IF Len(s) = 0 THEN Zero ELSE RAdd(s[1], SeqSum(Tail(s)))

\* np.sum(M)
MSum(M) == SeqSum(Seq1([i \in 1..Len(M) |-> SeqSum(M[i])]))

\* M.T for an r x c matrix
Transpose(M, c) == Seq1([j \in 1..c |-> Seq1([i \in 1..Len(M) |-> M[i][j]])])

\* M[:, :k]: the first k columns, all of them when there are fewer
Truncate(M, kk) == Seq1([i \in 1..Len(M) |-> SubSeq(M[i], 1, Min(kk, Len(M[i])))])

\* csr_matrix((vals.ravel(), idx.ravel(), range(0, n*k+1, k)), shape=(n, ncols)):
\* row i holds vals[i][j] at column idx[i][j]; repeated columns add up.
csr_matrix(vals, idx, ncols) ==
    Seq1([i \in 1..Len(vals) |->
        Seq1([c \in 1..ncols |->
            SeqSum(Seq1([j \in 1..Len(vals[i]) |->
                      IF idx[i][j] = c THEN vals[i][j] ELSE Zero]))])])

\* (P + P.T) / 2 for a square matrix
SymmetrizeAvg(M) ==
    Seq1([i \in 1..Len(M) |->
        Seq1([c \in 1..Len(M) |-> RDiv(RAdd(M[i][c], M[c][i]), <<2, 1>>)])])

\* P /= s
MDivide(M, s) ==
    Seq1([i \in 1..Len(M) |-> Seq1([c \in 1..Len(M[i]) |-> RDiv(M[i][c], s)])])

\* ------------------------------------------------- external collaborators
\* Points live on the integer line; the metric is the absolute difference.
Dist(a, b) == Abs(a - b)

\* The k candidates of C nearest to position x, nearest first (ties by index).
RECURSIVE Nearest(_, _, _, _)
Nearest(x, data, C, kk) ==
    IF kk <= 0 \/ C = {} THEN <<>>
    ELSE LET j == CHOOSE j \in C : \A l \in C :
                     \/ Dist(x, data[j]) < Dist(x, data[l])
                     \/ Dist(x, data[j]) = Dist(x, data[l]) /\ j <= l
         IN <<j>> \o Nearest(x, data, C \ {j}, kk - 1)

\* KNNIndex.query_train(data, k): the k nearest neighbours of every reference
\* point among the other reference points, as (neighbors, distances).
query_train(index, kk) ==
    LET d == index.data
        nb == Seq1([i \in 1..Len(d) |-> Nearest(d[i], d, (1..Len(d)) \ {i}, kk)])
    IN [neighbors |-> nb,
        distances |-> Seq1([i \in 1..Len(d) |->
                         Seq1([j \in 1..Len(nb[i]) |-> Dist(d[i], d[nb[i][j]])])])]

\* KNNIndex.query(new_data, k): the k nearest reference points of every new point.
query(index, new, kk) ==
    LET d == index.data
        nb == Seq1([i \in 1..Len(new) |-> Nearest(new[i], d, 1..Len(d), kk)])
    IN [neighbors |-> nb,
        distances |-> Seq1([i \in 1..Len(new) |->
                         Seq1([j \in 1..Len(nb[i]) |-> Dist(new[i], d[nb[i][j]])])])]

\* nearest_neighbors.VALID_METRICS, the allow-list of metric names
VALID_METRICS == {"euclidean", "manhattan"}

\* A kernel weight 2^-e, saturating at the smallest weight 2^-MaxExp.
KernelWeight(e) == Rat(1, Pow2(Min(MaxExp, e)))

RowDivide(row, s) == Seq1([j \in 1..Len(row) |-> RDiv(row[j], s)])

\* conditional_P /= np.sum(conditional_P, axis=1)[:, np.newaxis]
RowNormalize(M) ==
    Seq1([i \in 1..Len(M) |-> RowDivide(M[i], SeqSum(M[i]))])

\* One calibrated row set: the kernel exp(-d^2 * beta) per row, normalized to
\* sum 1.  The binary search for beta is abstracted: a perplexity of at least
\* a third of the row length gives the flat row (beta = 0), a smaller one
\* beta = 1; a non-positive perplexity, for which the search has no target,
\* gives the flat row as well.
CalibratedRows(dist, perp) ==
    RowNormalize(Seq1([i \in 1..Len(dist) |->
        Seq1([j \in 1..Len(dist[i]) |->
            IF 3 * perp >= Len(dist[i]) * PerpDen \/ perp <= 0
            THEN One ELSE KernelWeight(dist[i][j] * dist[i][j])])]))

\* _tsne.compute_gaussian_perplexity(distances, perplexities): the calibrated
\* rows of every perplexity, summed entry by entry.
RECURSIVE compute_gaussian_perplexity(_, _)
compute_gaussian_perplexity(dist, perps) ==
    IF Len(perps) = 0
    THEN Seq1([i \in 1..Len(dist) |-> Seq1([j \in 1..Len(dist[i]) |-> Zero])])
    ELSE LET a == CalibratedRows(dist, perps[1])
             b == compute_gaussian_perplexity(dist, Tail(perps))
         IN Seq1([i \in 1..Len(dist) |->
                Seq1([j \in 1..Len(dist[i]) |-> RAdd(a[i][j], b[i][j])])])

\* ------------------------------------------------------------ affinity.py
None == "None"
NoError == "none"

\* The value of an operation that raised.
Raised(e) == [err |-> e, value |-> <<>>]
Returned(v) == [err |-> NoError, value |-> v]

\* PerplexityBasedNN.check_perplexity
check_perplexity(n, perp) ==
    IF perp <= 0 THEN Raised("ValueError")
    ELSE IF (n - 1) * PerpDen < 3 * perp
    THEN Returned((n - 1) * PerpScale)
    ELSE Returned(perp)

\* Variant of k_neighbors below: 3 * perplexity rounded instead of truncated
k_neighbors_rounded(n, perp) == Min(n - 1, RoundHalfEven(3 * perp, PerpDen))

\* k_neighbors = min(self.n_samples - 1, int(3 * perplexity))
k_neighbors(n, perp) == Min(n - 1, IntTrunc(3 * perp, PerpDen))

\* Variant of NeedsMoreNeighbors below: compared with n_samples - 1 instead
\* of the cached column count
NeedsMoreNeighbors_samples(kn, nb) == kn > Len(nb) - 1

\* if k_neighbors > self.__neighbors.shape[1]
NeedsMoreNeighbors(kn, nb) == kn > NCols(nb)

\* Variant of k_too_large below: k = n_samples let through
k_too_large_off_by_one(kk, n) == kk > n

\* if k >= self.n_samples / elif k >= n_reference_samples
k_too_large(kk, n) == kk >= n

methods == {"exact", "approx"}
KNNIndexInstance == "KNNIndex"

\* Variant of build_knn_index below: the metric is passed through unchecked
build_knn_index_any_metric(data, method, metric) ==
    IF method = KNNIndexInstance THEN Returned([data |-> data])
    ELSE IF method \notin methods THEN Raised("ValueError")
    ELSE Returned([data |-> data])

\* build_knn_index: the index, built on data, or the error raised before build
build_knn_index(data, method, metric) ==
    IF method = KNNIndexInstance THEN Returned([data |-> data])
    ELSE IF method \notin methods THEN Raised("ValueError")
    ELSE IF metric \notin VALID_METRICS THEN Raised("ValueError")
    ELSE Returned([data |-> data])

\* joint_probabilities_nn; n_reference_samples = 0 stands for None.
\* range(0, n*k+1, k) raises for k = 0, and P + P.T for a non-square P.
\* P /= np.sum(P)
NormalizeBySum(M) == MDivide(M, MSum(M))

\* Variant of MaybeSymmetrize below: P + P.T without the division by 2
MaybeSymmetrize_sum(M, symmetrize) ==
    IF symmetrize
    THEN Seq1([i \in 1..Len(M) |-> Seq1([c \in 1..Len(M) |-> RAdd(M[i][c], M[c][i])])])
    ELSE M

\* Variant of MaybeSymmetrize below: the option is ignored
MaybeSymmetrize_skip(M, symmetrize) == M

\* P = (P + P.T) / 2 if symmetrize
MaybeSymmetrize(M, symmetrize) == IF symmetrize THEN SymmetrizeAvg(M) ELSE M

joint_probabilities_nn(nb, dist, perps, symmetrize, n_reference_samples) ==
    LET n == NRows(dist)
        kk == NCols(dist)
        nref == IF n_reference_samples = 0 THEN n ELSE n_reference_samples
    IN IF kk = 0 THEN Raised("ValueError")
       ELSE IF symmetrize /\ nref # n THEN Raised("ValueError")
       ELSE Returned(NormalizeBySum(MaybeSymmetrize(
                csr_matrix(compute_gaussian_perplexity(dist, perps), nb, nref),
                symmetrize)))

\* The fixed-bandwidth kernel np.exp(-distances ** 2 / (2 * sigma ** 2)),
\* normalized per row; exp is taken to base 2 on the integer part of the
\* exponent.
FixedSigmaConditional(dist, sg) ==
    RowNormalize(Seq1([i \in 1..Len(dist) |->
        Seq1([j \in 1..Len(dist[i]) |->
            KernelWeight((dist[i][j] * dist[i][j]) \div (2 * sg * sg))])]))

\* The matrix FixedSigmaNN assembles from neighbours and distances:
\* csr_matrix, optional symmetrization, P /= np.sum(conditional_P).
FixedSigmaAssemble(conditional_P, nb, symmetrize, nref) ==
    MDivide(MaybeSymmetrize(csr_matrix(conditional_P, nb, nref), symmetrize),
            MSum(conditional_P))

FixedSigmaP(nb, dist, sg, symmetrize, nref) ==
    IF NCols(dist) = 0 THEN Raised("ValueError")
    ELSE Returned(FixedSigmaAssemble(FixedSigmaConditional(dist, sg), nb,
                                     symmetrize, nref))

\* Multiscale.check_perplexities on an already sorted list, appending to usable
RECURSIVE CheckSorted(_, _, _)
CheckSorted(n, sorted, usable) ==
    IF Len(sorted) = 0 THEN usable
    ELSE LET perp == sorted[1]
             new_perplexity == (n - 1) * PerpScale
         IN IF 3 * perp > (n - 1) * PerpDen
            THEN IF \E i \in 1..Len(usable) : usable[i] = new_perplexity
                 THEN CheckSorted(n, Tail(sorted), usable)
                 ELSE CheckSorted(n, Tail(sorted), Append(usable, new_perplexity))
            ELSE CheckSorted(n, Tail(sorted), Append(usable, perp))

\* sorted(perplexities): insertion into an ascending list
RECURSIVE Insert(_, _)
Insert(x, s) ==
    IF Len(s) = 0 THEN <<x>>
    ELSE IF x <= s[1] THEN <<x>> \o s
    ELSE <<s[1]>> \o Insert(x, Tail(s))

RECURSIVE Sorted(_)
Sorted(s) == IF Len(s) = 0 THEN <<>> ELSE Insert(s[1], Sorted(Tail(s)))

\* Variant of check_perplexities below: the list is not sorted first
check_perplexities_unsorted(n, perps) == CheckSorted(n, perps, <<>>)

\* Multiscale.check_perplexities
check_perplexities(n, perps) == CheckSorted(n, Sorted(perps), <<>>)

\* np.max of a non-empty list
RECURSIVE SeqMax(_)
SeqMax(s) == IF Len(s) = 1 THEN s[1]
             ELSE LET m == SeqMax(Tail(s)) IN IF s[1] >= m THEN s[1] ELSE m

\* ------------------------------------------------------------------ state
\* One affinity model per behaviour.  variant names its class ("none" before
\* construction and after a constructor raised); n_samples, perplexity,
\* perplexities, k, sigma, knn_index and P are its attributes, neighbors and
\* distances the private caches of PerplexityBasedNN.  ctor_symmetrize records
\* the symmetrize argument of the constructor, builds and query_trains count
\* the calls of KNNIndex.build and KNNIndex.query_train, and ret describes the
\* last call: its arguments, the error it raised, the neighbour count it used
\* and the values it returned.
VARIABLES variant, n_samples, perplexity, perplexities, k, sigma, knn_index,
          neighbors, distances, P, ctor_symmetrize, builds, query_trains, ret

vars == <<variant, n_samples, perplexity, perplexities, k, sigma, knn_index,
          neighbors, distances, P, ctor_symmetrize, builds, query_trains, ret>>

attrs == <<variant, n_samples, perplexity, perplexities, k, sigma, knn_index,
           neighbors, distances, P, ctor_symmetrize>>

BlankRet == [op |-> "start", err |-> NoError, method |-> None, metric |-> None,
             knn |-> "not_called", n |-> 0, arg |-> 0, argl |-> <<>>, none |-> FALSE,
             old |-> 0, queried |-> FALSE, k |-> 0, m |-> 0,
             P |-> <<>>, nb |-> <<>>]

\* ----------------------------------------------------------------- inputs
Samples == 1..MaxSamples
\* Reference sets: points at growing gaps (0, 1, 3, 6, ...), whose neighbour
\* relation is not symmetric, and evenly spaced points (1, 2, 3, ...), which
\* have ties.
DataSets == UNION {{Seq1([i \in 1..n |-> (i * (i - 1)) \div 2]),
                    Seq1([i \in 1..n |-> i])} : n \in Samples}
NewSets == {Seq1([i \in 1..MaxNew |-> 2 * i])}
PerplexityInputs == {-PerpScale, 0} \cup (1..MaxPerp)
MethodInputs == methods \cup {KNNIndexInstance, "bogus"}
MetricInputs == {"euclidean", "bogus"}
KInputs == 0..MaxSamples
SigmaInputs == 1..MaxSigma
ScaleValues == {-PerpScale} \cup {j \in 1..MaxPerp : j > PerpScale /\ j % 2 = 1}
                             \cup {MaxPerp - 2, MaxPerp}
\* Lists with a positive maximum: a list without one asks the index for a
\* negative number of neighbours, which its contract leaves open.
ScaleLists == {<<a>> : a \in ScaleValues \ {-PerpScale}} \cup
              {<<a, b>> : a \in ScaleValues, b \in ScaleValues \ {-PerpScale}} \cup
              {<<a, -PerpScale>> : a \in ScaleValues \ {-PerpScale}}
OverrideLists == {<<a>> : a \in ScaleValues \ {-PerpScale}} \cup
                 {<<-PerpScale, a>> : a \in ScaleValues \ {-PerpScale}}

Init ==
    /\ variant = "none"
    /\ n_samples = 0
    /\ perplexity = 0
    /\ perplexities = <<>>
    /\ k = 0
    /\ sigma = 0
    /\ knn_index = [data |-> <<>>]
    /\ neighbors = <<>>
    /\ distances = <<>>
    /\ P = <<>>
    /\ ctor_symmetrize = FALSE
    /\ builds = 0
    /\ query_trains = 0
    /\ ret = BlankRet

\* No instance exists yet and no constructor has been called.
Fresh == variant = "none" /\ ret.op = "start"

\* A constructor that raised: no instance exists; the index may have been built.
CtorRaised(r, b, q) ==
    /\ ret' = r
    /\ builds' = b
    /\ query_trains' = q
    /\ UNCHANGED attrs

\* ------------------------------------------------------ PerplexityBasedNN
PerplexityBasedNN_init(data, perp, method, metric, symmetrize) ==
    /\ Fresh
    /\ LET n == Len(data)
           cp == check_perplexity(n, perp)
           bi == build_knn_index(data, method, metric)
           kn == k_neighbors(n, cp.value)
           q == query_train(bi.value, kn)
           jp == joint_probabilities_nn(q.neighbors, q.distances, <<cp.value>>,
                                        symmetrize, 0)
           r0 == [BlankRet EXCEPT !.op = "PerplexityBasedNN.__init__", !.n = n,
                                  !.method = method, !.metric = metric,
                                  !.arg = perp]
           r1 == [r0 EXCEPT !.knn = "built", !.queried = TRUE, !.k = kn]
       IN IF cp.err # NoError
          THEN CtorRaised([r0 EXCEPT !.err = cp.err], 0, 0)
          ELSE IF bi.err # NoError
          THEN CtorRaised([r0 EXCEPT !.err = bi.err, !.knn = "raised"], 0, 0)
          ELSE IF jp.err # NoError
          THEN CtorRaised([r1 EXCEPT !.err = jp.err], 1, 1)
          ELSE /\ variant' = "PerplexityBasedNN"
               /\ n_samples' = n
               /\ perplexity' = cp.value
               /\ knn_index' = bi.value
               /\ neighbors' = q.neighbors
               /\ distances' = q.distances
               /\ P' = jp.value
               /\ ctor_symmetrize' = symmetrize
               /\ builds' = 1
               /\ query_trains' = 1
               /\ ret' = r1
               /\ UNCHANGED <<perplexities, k, sigma>>

\* Variant of set_perplexity below: the truncated arrays replace the caches
set_perplexity_truncating(new_perplexity) ==
    /\ variant = "PerplexityBasedNN"
    /\ LET cp == check_perplexity(n_samples, new_perplexity)
           kn == k_neighbors(n_samples, cp.value)
           jp == joint_probabilities_nn(Truncate(neighbors, kn),
                                        Truncate(distances, kn),
                                        <<cp.value>>, TRUE, 0)
           r0 == [BlankRet EXCEPT !.op = "set_perplexity", !.n = n_samples,
                                  !.arg = new_perplexity, !.old = perplexity]
           r1 == [r0 EXCEPT !.queried = TRUE, !.k = kn]
           keep == UNCHANGED <<perplexity, P, neighbors, distances>>
       IN IF new_perplexity = perplexity
          THEN ret' = r0 /\ keep
          ELSE IF cp.err # NoError
          THEN ret' = [r0 EXCEPT !.err = cp.err] /\ keep
          ELSE IF NeedsMoreNeighbors(kn, neighbors)
          THEN ret' = [r0 EXCEPT !.err = "RuntimeError"] /\ keep
          ELSE /\ perplexity' = cp.value
               /\ neighbors' = Truncate(neighbors, kn)
               /\ distances' = Truncate(distances, kn)
               /\ IF jp.err # NoError
                  THEN ret' = [r1 EXCEPT !.err = jp.err] /\ UNCHANGED P
                  ELSE ret' = r1 /\ P' = jp.value
    /\ UNCHANGED <<variant, n_samples, perplexities, k, sigma, knn_index,
                   ctor_symmetrize, builds, query_trains>>

set_perplexity(new_perplexity) ==
    /\ variant = "PerplexityBasedNN"
    /\ LET cp == check_perplexity(n_samples, new_perplexity)
           kn == k_neighbors(n_samples, cp.value)
           jp == joint_probabilities_nn(Truncate(neighbors, kn),
                                        Truncate(distances, kn),
                                        <<cp.value>>, TRUE, 0)
           r0 == [BlankRet EXCEPT !.op = "set_perplexity", !.n = n_samples,
                                  !.arg = new_perplexity, !.old = perplexity]
           r1 == [r0 EXCEPT !.queried = TRUE, !.k = kn]
       IN IF new_perplexity = perplexity
          THEN ret' = r0 /\ UNCHANGED <<perplexity, P>>
          ELSE IF cp.err # NoError
          THEN ret' = [r0 EXCEPT !.err = cp.err] /\ UNCHANGED <<perplexity, P>>
          ELSE IF NeedsMoreNeighbors(kn, neighbors)
          THEN ret' = [r0 EXCEPT !.err = "RuntimeError"] /\ UNCHANGED <<perplexity, P>>
          ELSE IF jp.err # NoError
          THEN /\ perplexity' = cp.value
               /\ ret' = [r1 EXCEPT !.err = jp.err]
               /\ UNCHANGED P
          ELSE /\ perplexity' = cp.value
               /\ P' = jp.value
               /\ ret' = r1
    /\ UNCHANGED <<variant, n_samples, perplexities, k, sigma, knn_index,
                   neighbors, distances, ctor_symmetrize, builds, query_trains>>

\* to_new(data, perplexity): none = TRUE stands for perplexity=None
PerplexityBasedNN_to_new(data, none, perp) ==
    /\ variant = "PerplexityBasedNN"
    /\ LET given == IF none THEN perplexity ELSE perp
           cp == check_perplexity(n_samples, given)
           kn == k_neighbors(n_samples, cp.value)
           q == query(knn_index, data, kn)
           jp == joint_probabilities_nn(q.neighbors, q.distances, <<cp.value>>,
                                        FALSE, n_samples)
           r0 == [BlankRet EXCEPT !.op = "PerplexityBasedNN.to_new", !.n = n_samples,
                                  !.arg = given, !.none = none, !.m = Len(data)]
           r1 == [r0 EXCEPT !.queried = TRUE, !.k = kn]
       IN IF cp.err # NoError
          THEN ret' = [r0 EXCEPT !.err = cp.err]
          ELSE IF jp.err # NoError
          THEN ret' = [r1 EXCEPT !.err = jp.err]
          ELSE ret' = [r1 EXCEPT !.P = jp.value, !.nb = q.neighbors]
    /\ UNCHANGED <<attrs, builds, query_trains>>

\* ------------------------------------------------------------ FixedSigmaNN
FixedSigmaNN_init(data, sg, kk, method, metric, symmetrize) ==
    /\ Fresh
    /\ LET n == Len(data)
           bi == build_knn_index(data, method, metric)
           q == query_train(bi.value, kk)
           fp == FixedSigmaP(q.neighbors, q.distances, sg, symmetrize, n)
           r0 == [BlankRet EXCEPT !.op = "FixedSigmaNN.__init__", !.n = n,
                                  !.method = method, !.metric = metric]
           r1 == [r0 EXCEPT !.knn = "built", !.queried = TRUE, !.k = kk]
       IN IF k_too_large(kk, n)
          THEN CtorRaised([r0 EXCEPT !.err = "ValueError"], 0, 0)
          ELSE IF bi.err # NoError
          THEN CtorRaised([r0 EXCEPT !.err = bi.err, !.knn = "raised"], 0, 0)
          ELSE IF fp.err # NoError
          THEN CtorRaised([r1 EXCEPT !.err = fp.err], 1, 1)
          ELSE /\ variant' = "FixedSigmaNN"
               /\ n_samples' = n
               /\ knn_index' = bi.value
               /\ sigma' = sg
               /\ k' = kk
               /\ P' = fp.value
               /\ ctor_symmetrize' = symmetrize
               /\ builds' = 1
               /\ query_trains' = 1
               /\ ret' = r1
               /\ UNCHANGED <<perplexity, perplexities, neighbors, distances>>

\* to_new(data, k, sigma): knone / snone = TRUE stand for k=None / sigma=None
FixedSigmaNN_to_new(data, knone, kk, snone, sg) ==
    /\ variant = "FixedSigmaNN"
    /\ LET n_reference_samples == n_samples
           k1 == IF knone THEN k ELSE kk
           sigma1 == IF snone THEN sigma ELSE sg
           q == query(knn_index, data, k1)
           fp == FixedSigmaP(q.neighbors, q.distances, sigma1, FALSE,
                             n_reference_samples)
           r0 == [BlankRet EXCEPT !.op = "FixedSigmaNN.to_new", !.none = knone,
                                  !.n = n_reference_samples,
                                  !.m = Len(data)]
           r1 == [r0 EXCEPT !.queried = TRUE, !.k = k1]
       IN IF ~knone /\ k_too_large(kk, n_reference_samples)
          THEN ret' = [r0 EXCEPT !.err = "ValueError"]
          ELSE IF fp.err # NoError
          THEN ret' = [r1 EXCEPT !.err = fp.err]
          ELSE ret' = [r1 EXCEPT !.P = fp.value, !.nb = q.neighbors]
    /\ UNCHANGED <<attrs, builds, query_trains>>

\* -------------------------------------------------------------- Multiscale
Multiscale_init(data, perps, method, metric, symmetrize) ==
    /\ Fresh
    /\ LET n == Len(data)
           checked == check_perplexities(n, perps)
           max_perplexity == SeqMax(checked)
           kn == k_neighbors(n, max_perplexity)
           bi == build_knn_index(data, method, metric)
           q == query_train(bi.value, kn)
           jp == joint_probabilities_nn(q.neighbors, q.distances, checked,
                                        symmetrize, 0)
           r0 == [BlankRet EXCEPT !.op = "Multiscale.__init__", !.n = n,
                                  !.method = method, !.metric = metric,
                                  !.argl = perps]
           r1 == [r0 EXCEPT !.knn = "built", !.queried = TRUE, !.k = kn]
       IN IF bi.err # NoError
          THEN CtorRaised([r0 EXCEPT !.err = bi.err, !.knn = "raised"], 0, 0)
          ELSE IF jp.err # NoError
          THEN CtorRaised([r1 EXCEPT !.err = jp.err], 1, 1)
          ELSE /\ variant' = "Multiscale"
               /\ n_samples' = n
               /\ knn_index' = bi.value
               /\ P' = jp.value
               /\ perplexities' = checked
               /\ ctor_symmetrize' = symmetrize
               /\ builds' = 1
               /\ query_trains' = 1
               /\ ret' = r1
               /\ UNCHANGED <<perplexity, k, sigma, neighbors, distances>>

\* to_new(data, perplexities): none = TRUE stands for perplexities=None
Multiscale_to_new(data, none, perps) ==
    /\ variant = "Multiscale"
    /\ LET given == IF none THEN perplexities ELSE perps
           checked == check_perplexities(n_samples, given)
           max_perplexity == SeqMax(checked)
           kn == k_neighbors(n_samples, max_perplexity)
           q == query(knn_index, data, kn)
           jp == joint_probabilities_nn(q.neighbors, q.distances, checked,
                                        FALSE, n_samples)
           r0 == [BlankRet EXCEPT !.op = "Multiscale.to_new", !.argl = given,
                                  !.n = n_samples,
                                  !.none = none, !.m = Len(data)]
           r1 == [r0 EXCEPT !.queried = TRUE, !.k = kn]
       IN IF jp.err # NoError
          THEN ret' = [r1 EXCEPT !.err = jp.err]
          ELSE ret' = [r1 EXCEPT !.P = jp.value, !.nb = q.neighbors]
    /\ UNCHANGED <<attrs, builds, query_trains>>

\* ------------------------------------------------------------ specification
Next ==
    \/ /\ Fresh
       /\ \E data \in DataSets, perp \in PerplexityInputs, method \in MethodInputs,
             metric \in MetricInputs, symmetrize \in BOOLEAN :
               PerplexityBasedNN_init(data, perp, method, metric, symmetrize)
    \/ /\ variant = "PerplexityBasedNN"
       /\ \E perp \in PerplexityInputs : set_perplexity(perp)
    \/ /\ variant = "PerplexityBasedNN"
       /\ \E data \in NewSets, perp \in PerplexityInputs :
               PerplexityBasedNN_to_new(data, FALSE, perp)
    \/ /\ variant = "PerplexityBasedNN"
       /\ \E data \in NewSets : PerplexityBasedNN_to_new(data, TRUE, 0)
    \/ /\ Fresh
       /\ \E data \in DataSets, sg \in SigmaInputs, kk \in KInputs,
             method \in MethodInputs, metric \in MetricInputs, symmetrize \in BOOLEAN :
               FixedSigmaNN_init(data, sg, kk, method, metric, symmetrize)
    \/ /\ variant = "FixedSigmaNN"
       /\ \E data \in NewSets, kk \in KInputs, sg \in SigmaInputs :
               FixedSigmaNN_to_new(data, FALSE, kk, FALSE, sg)
    \/ /\ variant = "FixedSigmaNN"
       /\ \E data \in NewSets : FixedSigmaNN_to_new(data, TRUE, 0, TRUE, 0)
    \/ /\ Fresh
       /\ \E data \in DataSets, perps \in ScaleLists, method \in MethodInputs,
             metric \in MetricInputs, symmetrize \in BOOLEAN :
               Multiscale_init(data, perps, method, metric, symmetrize)
    \/ /\ variant = "Multiscale"
       /\ \E data \in NewSets, perps \in OverrideLists :
               Multiscale_to_new(data, FALSE, perps)
    \/ /\ variant = "Multiscale"
       /\ \E data \in NewSets : Multiscale_to_new(data, TRUE, <<>>)

Spec == Init /\ [][Next]_vars

\* ------------------------------------------- check_perplexities on its own
\* Multiscale.__init__ calls check_perplexities when only n_samples is set;
\* the method reads nothing else.  CheckSpec applies it to every short list.
CheckValues == ScaleValues \cup {0} \cup {(n - 1) * PerpScale : n \in Samples}

RECURSIVE ListsUpTo(_)
ListsUpTo(len) ==
    IF len = 0 THEN {<<>>}
    ELSE LET shorter == ListsUpTo(len - 1)
         IN shorter \cup {Append(l, v) : l \in shorter, v \in CheckValues}

CheckInit ==
    /\ variant = "Multiscale"
    /\ n_samples \in Samples
    /\ perplexity = 0
    /\ perplexities = <<>>
    /\ k = 0
    /\ sigma = 0
    /\ knn_index = [data |-> <<>>]
    /\ neighbors = <<>>
    /\ distances = <<>>
    /\ P = <<>>
    /\ ctor_symmetrize = FALSE
    /\ builds = 0
    /\ query_trains = 0
    /\ ret = BlankRet

\* a call of check_perplexities; ret.argl is the argument, ret.nb the result
Multiscale_check_perplexities(perps) ==
    /\ variant = "Multiscale"
    /\ ret' = [BlankRet EXCEPT !.op = "Multiscale.check_perplexities",
                               !.n = n_samples, !.argl = perps,
                               !.nb = check_perplexities(n_samples, perps)]
    /\ UNCHANGED <<attrs, builds, query_trains>>

CheckNext == \E perps \in ListsUpTo(MaxList) : Multiscale_check_perplexities(perps)

CheckSpec == CheckInit /\ [][CheckNext]_vars

\* ------------------------------------------------------------- properties
CtorOps == {"PerplexityBasedNN.__init__", "FixedSigmaNN.__init__", "Multiscale.__init__"}
ToNewOps == {"PerplexityBasedNN.to_new", "FixedSigmaNN.to_new", "Multiscale.to_new"}
Built == variant # "none"

\* The perplexity that stands for perp on n points: (n-1)/3 when 3*perp > n-1
Clamped(n, perp) == IF 3 * perp > (n - 1) * PerpDen THEN (n - 1) * PerpScale ELSE perp
\* min(n-1, floor(3 * clamped perplexity)) for a positive perplexity
FloorCount(n, perp) == Min(n - 1, (3 * Clamped(n, perp)) \div PerpDen)
\* min(n-1, round(3 * perplexity)) for a positive perplexity
RoundCount(n, perp) == Min(n - 1, RoundHalfEven(3 * perp, PerpDen))

AllPositive(l) == \A i \in 1..Len(l) : l[i] > 0
Count(l, v) == Cardinality({i \in 1..Len(l) : l[i] = v})
IsTransposeOfItself(M) == \A i \in 1..Len(M) : \A j \in 1..Len(M) : M[i][j] = M[j][i]

\* C1: a set_perplexity call with a positive value whose neighbour count
\* min(n_samples-1, int(3*checked value)) exceeds the number of cached
\* neighbour columns raises RuntimeError, and the step leaves P, perplexity
\* and the cached neighbour and distance matrices as they were.
C1_RejectedRaiseKeepsState ==
    [][(/\ ret'.op = "set_perplexity"
        /\ ret'.arg > 0
        /\ FloorCount(n_samples, ret'.arg) > NCols(neighbors))
       => (/\ ret'.err = "RuntimeError"
           /\ UNCHANGED <<P, perplexity, neighbors, distances>>)]_vars

\* C1 witness: a set_perplexity call was rejected for needing more neighbours
C1_Witness ==
    /\ ret.op = "set_perplexity"
    /\ ret.err = "RuntimeError"
    /\ FloorCount(n_samples, ret.arg) > NCols(neighbors)

\* C2: once a model exists, no step calls build or query_train again or
\* changes the index or the cached neighbour and distance matrices; and a
\* set_perplexity call with a positive value other than the stored one whose
\* neighbour count is at least 1 and at most the cached column count succeeds
\* and stores the value.
C2_CacheNeverRefetched ==
    [][/\ Built => UNCHANGED <<builds, query_trains, knn_index, neighbors, distances>>
       /\ (/\ ret'.op = "set_perplexity"
           /\ ret'.arg > 0
           /\ ret'.arg # ret'.old
           /\ FloorCount(n_samples, ret'.arg) >= 1
           /\ FloorCount(n_samples, ret'.arg) <= NCols(neighbors))
          => (ret'.err = NoError /\ perplexity' = Clamped(n_samples, ret'.arg))]_vars

\* C2 witness: after a lowering, set_perplexity raised the perplexity back to
\* one that uses every cached column
C2_Witness ==
    /\ ret.op = "set_perplexity"
    /\ ret.err = NoError
    /\ ret.queried
    /\ ret.old > 0
    /\ FloorCount(n_samples, ret.old) < ret.k
    /\ ret.k = NCols(neighbors)
    /\ builds = 1 /\ query_trains = 1

\* C3: the stored P of every model and the matrix returned by every to_new
\* have entries that sum to exactly 1.
C3_SumsToOne ==
    /\ Built => MSum(P) = One
    /\ (ret.op \in ToNewOps /\ ret.err = NoError) => MSum(ret.P) = One

\* C3 witness: a symmetrized FixedSigmaNN whose to_new returned a matrix
C3_Witness ==
    /\ variant = "FixedSigmaNN"
    /\ ctor_symmetrize
    /\ n_samples >= 3
    /\ ret.op = "FixedSigmaNN.to_new"
    /\ ret.err = NoError

\* C4: a model constructed with symmetrize=True stores a P equal to its
\* transpose; the matrix a to_new returns has one row per new point and
\* n_samples columns, and row i is non-zero exactly at the neighbours found
\* for new point i (nothing is mirrored in from a transpose).
C4_SymmetricStoredRectangularNew ==
    /\ (Built /\ ctor_symmetrize) =>
          (NRows(P) = n_samples /\ NCols(P) = n_samples /\ IsTransposeOfItself(P))
    /\ (ret.op \in ToNewOps /\ ret.err = NoError) =>
          /\ NRows(ret.P) = ret.m
          /\ NCols(ret.P) = n_samples
          /\ \A i \in 1..ret.m : \A c \in 1..n_samples :
                (ret.P[i][c] # Zero) <=> (\E j \in 1..Len(ret.nb[i]) : ret.nb[i][j] = c)

\* C4 witness: a model built with symmetrize=True, whose neighbour relation is
\* not symmetric, returned a non-square to_new matrix
C4_Witness ==
    /\ Built /\ ctor_symmetrize
    /\ ret.op \in ToNewOps /\ ret.err = NoError
    /\ ret.m # n_samples
    /\ ret.k < n_samples - 1

\* C5: whenever an operation passes a neighbour count to query_train or query,
\* or truncates the cached arrays to it, that count is at most n_samples - 1.
C5_CountBelowSamples == ret.queried => ret.k <= ret.n - 1

\* C5 witness: a to_new of FixedSigmaNN was given the largest admissible k,
\* and queried with it
C5_Witness ==
    /\ ret.op = "FixedSigmaNN.to_new"
    /\ ~ret.none
    /\ ret.queried
    /\ ret.n >= 3
    /\ ret.k = ret.n - 1

\* The perplexity operations of PerplexityBasedNN that used a neighbour count
UsedPerplexity ==
    /\ ret.op \in {"PerplexityBasedNN.__init__", "set_perplexity",
                    "PerplexityBasedNN.to_new"}
    /\ ret.queried
    /\ ret.arg > 0
\* The operations of Multiscale that used a neighbour count, on a positive list
UsedPerplexities ==
    /\ ret.op \in {"Multiscale.__init__", "Multiscale.to_new"}
    /\ ret.queried
    /\ AllPositive(ret.argl)

\* C6 as stated: for a positive perplexity the neighbour count is
\* min(n_samples-1, round(3*perplexity)), and for Multiscale
\* min(n_samples-1, round(3*max(perplexities))).
C6_RoundedCount ==
    /\ UsedPerplexity => ret.k = RoundCount(ret.n, ret.arg)
    /\ UsedPerplexities => ret.k = RoundCount(ret.n, SeqMax(ret.argl))

\* C6 amended: for a positive perplexity the neighbour count is
\* min(n_samples-1, floor(3*perplexity)), 3*perplexity truncated rather than
\* rounded, and for Multiscale min(n_samples-1, floor(3*max(perplexities))).
C6_TruncatedCount ==
    /\ UsedPerplexity => ret.k = Min(ret.n - 1, (3 * ret.arg) \div PerpDen)
    /\ UsedPerplexities => ret.k = Min(ret.n - 1, (3 * SeqMax(ret.argl)) \div PerpDen)

\* C6 witness: a perplexity whose triple has a fractional part of at least
\* one half, below the clamp, so that rounding and truncating differ
C6_Witness ==
    /\ UsedPerplexity
    /\ 2 * ((3 * ret.arg) % PerpDen) >= PerpDen
    /\ RoundCount(ret.n, ret.arg) # ret.k
    /\ ret.k < ret.n - 1

IsBuiltin(method) == method \in methods
IsInstance(method) == method = KNNIndexInstance

\* C7 as stated: whenever a constructor reaches build_knn_index with a metric
\* outside the allow-list, or a method that is neither a builtin name nor an
\* index instance, a ValueError is raised and build has not been called.
C7_BadConfigRejected ==
    (/\ ret.op \in CtorOps
     /\ ret.knn # "not_called"
     /\ (ret.metric \notin VALID_METRICS
            \/ ~(IsBuiltin(ret.method) \/ IsInstance(ret.method))))
    => (ret.err = "ValueError" /\ ret.knn = "raised" /\ builds = 0)

\* C7 amended: whenever a constructor reaches build_knn_index, a method that
\* is neither a builtin name nor an index instance, or a builtin method with
\* a metric outside the allow-list, raises ValueError before build is called;
\* with an index instance as method the metric is not examined and build is
\* called on the instance.
C7_BadConfigRejectedForBuiltin ==
    (ret.op \in CtorOps /\ ret.knn # "not_called") =>
        /\ (\/ ~(IsBuiltin(ret.method) \/ IsInstance(ret.method))
            \/ (IsBuiltin(ret.method) /\ ret.metric \notin VALID_METRICS))
           => (ret.err = "ValueError" /\ ret.knn = "raised" /\ builds = 0)
        /\ (\/ IsInstance(ret.method)
            \/ (IsBuiltin(ret.method) /\ ret.metric \in VALID_METRICS))
           => (ret.knn = "built" /\ builds = 1)

\* C7 witness: a builtin method with an unknown metric was rejected
C7_Witness ==
    /\ ret.op \in CtorOps
    /\ ret.knn = "raised"
    /\ IsBuiltin(ret.method)
    /\ ret.metric \notin VALID_METRICS
    /\ builds = 0

\* C8: an operation given a non-positive perplexity, alone or in a list,
\* raises ValueError before any index build or neighbour query.
C8_NonPositiveRejected ==
    /\ (/\ ret.op \in {"PerplexityBasedNN.__init__", "set_perplexity",
                        "PerplexityBasedNN.to_new"}
        /\ ret.arg <= 0)
       => (ret.err = "ValueError" /\ ~ret.queried /\ ret.knn = "not_called")
    /\ (/\ ret.op \in {"Multiscale.__init__", "Multiscale.to_new",
                        "Multiscale.check_perplexities"}
        /\ ~AllPositive(ret.argl))
       => (ret.err = "ValueError" /\ ~ret.queried /\ ret.knn = "not_called")

\* C10: the stored P of a PerplexityBasedNN is at all times the matrix that
\* joint_probabilities_nn assembles from the cached neighbours, truncated to
\* the stored perplexity, with the symmetrize option of the constructor.
C10_SymmetrizeGovernsStoredP ==
    (/\ variant = "PerplexityBasedNN"
     /\ ret.op = "set_perplexity"
     /\ ret.err = NoError
     /\ ret.queried)
    => P = joint_probabilities_nn(Truncate(neighbors, ret.k), Truncate(distances, ret.k),
                                  <<perplexity>>, ctor_symmetrize, 0).value

\* The largest feasible perplexity (n_samples - 1) / 3
MaxFeasible(n) == (n - 1) * PerpScale
Checked == ret.op = "Multiscale.check_perplexities"

\* C9 as stated: the result of check_perplexities holds only values p with
\* 3p <= n_samples-1, holds (n_samples-1)/3 if an input exceeded it, holds
\* (n_samples-1)/3 at most once, and is a fixed point of check_perplexities.
C9_ClampedOnce ==
    Checked =>
        /\ \A i \in 1..Len(ret.nb) : 3 * ret.nb[i] <= (ret.n - 1) * PerpDen
        /\ (\E i \in 1..Len(ret.argl) : 3 * ret.argl[i] > (ret.n - 1) * PerpDen)
              => Count(ret.nb, MaxFeasible(ret.n)) >= 1
        /\ Count(ret.nb, MaxFeasible(ret.n)) <= 1
        /\ check_perplexities(ret.n, ret.nb) = ret.nb

\* C9 amended: the result holds only values p with 3p <= n_samples-1; every
\* feasible input value is kept as often as it was given, in ascending
\* order; (n_samples-1)/3 is added once if some input exceeded it and the
\* input did not already hold it, so it occurs as often as the input held
\* it, or once; and the result is a fixed point of check_perplexities.
C9_ClampAddedOnce ==
    Checked =>
        /\ \A i \in 1..Len(ret.nb) : 3 * ret.nb[i] <= (ret.n - 1) * PerpDen
        /\ \A i \in 1..(Len(ret.nb) - 1) : ret.nb[i] <= ret.nb[i + 1]
        /\ \A v \in CheckValues :
              (3 * v <= (ret.n - 1) * PerpDen /\ v # MaxFeasible(ret.n))
                => Count(ret.nb, v) = Count(ret.argl, v)
        /\ Count(ret.nb, MaxFeasible(ret.n)) =
              IF Count(ret.argl, MaxFeasible(ret.n)) > 0
              THEN Count(ret.argl, MaxFeasible(ret.n))
              ELSE IF \E i \in 1..Len(ret.argl) : 3 * ret.argl[i] > (ret.n - 1) * PerpDen
                   THEN 1 ELSE 0
        /\ check_perplexities(ret.n, ret.nb) = ret.nb

\* C9 witness: two inputs above the maximum gave a single entry
C9_Witness ==
    /\ Checked
    /\ Len(ret.argl) = 2
    /\ \A i \in 1..2 : 3 * ret.argl[i] > (ret.n - 1) * PerpDen
    /\ ret.argl[1] # ret.argl[2]
    /\ ret.nb = <<MaxFeasible(ret.n)>>

====
